---- MODULE Spec2Model ----
(***************************************************************************)
(* Model of the source-rewriting utilities of backend/:                    *)
(*   fix_all_socket_orphans.py  fix_file                                   *)
(*   fix_socket_comments.py     fix_file                                   *)
(*   migrate_to_ably.py         add_ably_import, migrate_socket_to_ably,   *)
(*                              the driver loop                            *)
(*   migrate_todos.py           extract_channel_and_event,                 *)
(*                              extract_payload, migrate_file              *)
(*                                                                         *)
(* A file is a sequence of lines; a line is a sequence of atoms.  An atom  *)
(* is a piece of text that the programs never look inside: every literal   *)
(* the code searches for ('//', 'io.to(', '.emit(', '});', 'require(',     *)
(* a quote, a brace ...) is a concatenation of whole atoms, and no atom    *)
(* contains a character that a regular expression class or a count()       *)
(* of the code tests, unless the atom is that character.  Whitespace       *)
(* is the one-character atom " ", so that lengths of leading whitespace    *)
(* are numbers of atoms.  Indices are 1-based here and 0-based in the      *)
(* code.                                                                   *)
(***************************************************************************)
EXTENDS Integers, Sequences, FiniteSets, TLC

VARIABLES file, before, lastOp, prevOp, ret, wrote, inUtils, runs

vars == <<file, before, lastOp, prevOp, ret, wrote, inUtils, runs>>

\* Number of segments a generated input document is made of.
MaxSegs == 3

\* Number of tool runs over one file.
MaxRuns == 2

(***************************************************************************)
(* Text primitives of Python that the programs use.                        *)
(***************************************************************************)
WS == {" "}

RECURSIVE LStrip(_)
LStrip(s) == IF s # <<>> /\ Head(s) \in WS THEN LStrip(Tail(s)) ELSE s

RECURSIVE RStrip(_)
RStrip(s) ==
  IF s # <<>> /\ s[Len(s)] \in WS THEN RStrip(SubSeq(s, 1, Len(s) - 1)) ELSE s

Strip(s) == RStrip(LStrip(s))

StartsWith(s, p) == Len(s) >= Len(p) /\ SubSeq(s, 1, Len(p)) = p

EndsWith(s, p) == Len(s) >= Len(p) /\ SubSeq(s, Len(s) - Len(p) + 1, Len(s)) = p

Contains(s, p) ==
  \E a \in 1..(Len(s) - Len(p) + 1) : SubSeq(s, a, a + Len(p) - 1) = p

Count(s, c) == Cardinality({a \in 1..Len(s) : s[a] = c})

\* len(line) - len(line.lstrip())
Indent(s) == Len(s) - Len(LStrip(s))

\* ' ' * n
Spaces(n) == [a \in 1..n |-> " "]

AllWS(s, a, b) == \A x \in a..b : s[x] \in WS

Min(S) == CHOOSE x \in S : \A y \in S : x <= y

\* lines[line_num] = ' ' * indent + '// ' + lines[line_num].lstrip()
CommentOut(line) == Spaces(Indent(line)) \o <<"//", " ">> \o LStrip(line)

(***************************************************************************)
(* Input documents: concatenations of at most MaxSegs segments.  Every     *)
(* line of a catalogue is a segment by itself, so every sequence of at     *)
(* most MaxSegs catalogue lines is an input; the longer segments are the   *)
(* block shapes the tools are written for.                                 *)
(***************************************************************************)
RECURSIVE DocsOf(_, _)
DocsOf(segs, n) ==
  IF n <= 1 THEN segs
  ELSE LET prev == DocsOf(segs, n - 1)
       IN  prev \cup {d \o s : d \in prev, s \in segs}

\* Lines of the catalogues.
LBlank      == <<>>
LCode       == <<"z", "(", ")", ";">>
LCallC      == <<"//", " ", "io.to(", "a", ")", ".emit(", "'", "e", "'", ",", " ", "{">>
LCallU      == <<" ", " ", "io.to(", "a", ")", ".emit(", "'", "e", "'", ",", " ", "{">>
LPropU      == <<" ", " ", "x", ":", " ", "1", ",">>
LPropC      == <<" ", " ", "//", " ", "x", ":", " ", "1", ",">>
LOpenU      == <<" ", " ", "u", ":", " ", "{">>
LCloseInU   == <<" ", " ", "}", ",">>
LEndU       == <<"}", ")", ";">>
LEndC       == <<"//", " ", "}", ")", ";">>
LEnd2U      == <<"}", "}", ")", ";">>
LEnd2C      == <<"//", " ", "}", "}", ")", ";">>
LEndNoSemiC == <<"//", " ", "}", ")">>
LInnerEndC  == <<"//", " ", "cb", ":", " ", "f", "(", "(", ")", " ", "=>", " ",
                 "{", " ", "g", " ", "}", ")", ";", ",">>
LOpenC      == <<"//", " ", "u", ":", " ", "{">>
LCloseInC   == <<"//", " ", "}", ",">>
LOpen4C     == <<"//", " ", "u", ":", " ", "{", " ", "v", ":", " ", "{", " ",
                 "w", ":", " ", "{", " ", "y", ":", " ", "{">>
LClose4C    == <<"//", " ", "}", "}", "}", "}", ",">>
LNote       == <<"//", " ", "note">>
LTodo       == <<"//", " ", "TODO", ":", " ", "Replace with Ably">>
LCallQ      == <<"//", " ", "io.to(", "'", "a", "'", ")", ".emit(", "'", "e", "'",
                 ",", " ", "{">>
LCallBT     == <<"//", " ", "io.to(", "BACKTICK", "a", "BACKTICK", ")", ".emit(",
                 "'", "e", "'", ",", " ", "{">>
LCallDQ     == <<"//", " ", "io.to(", "'", "a", "'", ")", ".emit(", "DQUOTE", "e",
                 "DQUOTE", ",", " ", "{">>
LCall3      == <<"//", " ", " ", " ", "io.to(", "a", ")", ".emit(", "'", "e", "'",
                 ",", " ", "{">>
LCall5      == <<" ", " ", "//", " ", " ", " ", " ", " ", "io.to(", "a", ")",
                 ".emit(", "'", "e", "'", ",", " ", "{">>
LCloseU     == <<" ", " ", "}">>
LAwait      == <<"await", " ", "f", "(", ")", ";">>
LRes        == <<"res.", "json", "(", "x", ")", ";">>
LConst      == <<"const", " ", "b", " ", "=", " ", "1", ";">>
LLet        == <<"let", " ", "b", ";">>
LVar        == <<"var", " ", "b", ";">>
LRequire    == <<"const", " ", "b", " ", "=", " ", "require(", "'", "b", "'", ")", ";">>
LRequireC   == <<"//", " ", "require(", "'", "b", "'", ")", ";">>
LDocOpen    == <<"/*", "*">>
LDocRequire == <<" ", "*", " ", "require(", "'", "b", "'", ")">>
LDocClose   == <<" ", "*", "/">>
LAblyUse    == <<"const", " ", "p", " ", "=", " ", "require(", "'", "./",
                 "ably-publish", "'", ")", ";">>

(***************************************************************************)
(* fix_all_socket_orphans.py                                               *)
(***************************************************************************)
\* re.search(r'//\s+(io\.to\(.*\)\.emit\(.*,\s*\{)\s*$', line)
IsOrphanCall(line) ==
  \E q \in 3..Len(line) :
    /\ line[q] = "io.to("
    /\ \E p \in 1..(q - 2) : line[p] = "//" /\ AllWS(line, p + 1, q - 1)
    /\ \E a \in (q + 1)..(Len(line) - 1) :
         /\ line[a] = ")" /\ line[a + 1] = ".emit("
         /\ \E c \in (a + 2)..Len(line) :
              /\ line[c] = ","
              /\ \E o \in (c + 1)..Len(line) :
                   /\ line[o] = "{"
                   /\ AllWS(line, c + 1, o - 1)
                   /\ AllWS(line, o + 1, Len(line))

\* Mutant of OrphanNeedsComment: the test for the comment prefix is lost.
OrphanNeedsCommentNoPrefixTest(stripped, brace_count) ==
  stripped # <<>> /\ brace_count > 0

\* if not stripped.startswith('//') and stripped and brace_count > 0
OrphanNeedsComment(stripped, brace_count) ==
  ~StartsWith(stripped, <<"//">>) /\ stripped # <<>> /\ brace_count > 0

\* if not stripped.startswith('//') and '}' in stripped  (at brace_count == 0)
OrphanCloserNeedsComment(stripped) ==
  ~StartsWith(stripped, <<"//">>) /\ Count(stripped, "}") > 0

\* The inner while loop of fix_file: from line j with the given brace_count,
\* the line the scan stops at, the brace count there and the lines marked.
RECURSIVE OrphanScan(_, _, _, _)
OrphanScan(lines, j, brace_count, marks) ==
  IF j <= Len(lines) /\ brace_count > 0
  THEN LET stripped == Strip(lines[j])
           b  == brace_count + Count(stripped, "{") - Count(stripped, "}")
           m1 == IF OrphanNeedsComment(stripped, b) THEN Append(marks, j) ELSE marks
       IN  IF b = 0
           THEN [j |-> j, brace_count |-> b,
                 marks |-> IF OrphanCloserNeedsComment(stripped)
                           THEN Append(m1, j) ELSE m1]
           ELSE OrphanScan(lines, j + 1, b, m1)
  ELSE [j |-> j, brace_count |-> brace_count, marks |-> marks]

\* for line_num in properties_to_comment: lines[line_num] = ...
RECURSIVE OrphanApply(_, _)
OrphanApply(lines, marks) ==
  IF marks = <<>> THEN lines
  ELSE OrphanApply([lines EXCEPT ![Head(marks)] = CommentOut(lines[Head(marks)])],
                   Tail(marks))

\* The outer while loop of fix_file.  (The result of the scan is bound as the
\* one element of a set, so that it is computed once.)
RECURSIVE OrphansLoop(_, _, _)
OrphansLoop(lines, i, modified) ==
  IF i > Len(lines) THEN [lines |-> lines, modified |-> modified]
  ELSE IF IsOrphanCall(lines[i])
       THEN CHOOSE out \in
              { OrphansLoop(new, i + 1, modified \/ r.marks # <<>>) :
                  r \in {OrphanScan(lines, i + 1, 1, <<>>)},
                  new \in {OrphanApply(lines, OrphanScan(lines, i + 1, 1, <<>>).marks)} } :
              TRUE
       ELSE OrphansLoop(lines, i + 1, modified)

OrphansFixFile(lines) == OrphansLoop(lines, 1, FALSE)

Record(op) ==
  /\ before' = file
  /\ prevOp' = lastOp /\ lastOp' = op
  /\ runs' = runs + 1
  /\ UNCHANGED inUtils

OrphanSegs ==
  { <<LBlank>>, <<LCode>>, <<LCallC>>, <<LCallU>>, <<LPropU>>, <<LPropC>>,
    <<LOpenU>>, <<LCloseInU>>, <<LEndU>>, <<LEndC>>, <<LEnd2U>>,
    <<LOpenC>>, <<LCloseInC>>,
    <<LCallC, LPropU, LEndU>>,
    <<LCallC, LCallU, LPropU, LEndU, LEndU>> }

InitOrphans ==
  /\ file \in DocsOf(OrphanSegs, MaxSegs)
  /\ before = file
  /\ lastOp = "none" /\ prevOp = "none"
  /\ ret = FALSE /\ wrote = FALSE /\ inUtils = FALSE /\ runs = 0

\* One run of fix_all_socket_orphans.fix_file over the file.
RunOrphansFixFile ==
  /\ runs < MaxRuns
  /\ LET r == OrphansFixFile(file)
     IN  /\ file' = (IF r.modified THEN r.lines ELSE file)
         /\ wrote' = r.modified
         /\ ret' = r.modified
  /\ Record("orphans_fix_file")

NextOrphans == RunOrphansFixFile

SpecOrphans == InitOrphans /\ [][NextOrphans]_vars

(***************************************************************************)
(* migrate_to_ably.py                                                      *)
(***************************************************************************)
\* The characters of the quote class and of the closing class (the quotes
\* and the right parenthesis); the atoms DQUOTE and BACKTICK are the double quote and
\* the backtick character.
\* Both classes are those of the first pattern.
QuoteCls == {"'", "DQUOTE", "BACKTICK"}

QuoteParenCls == QuoteCls \cup {")"}

\* The last index of the longest run s[from..e] of atoms outside stop
\* (from - 1 when s[from] is in stop or from is past the end): the greedy
\* match of a negated class that is followed by a character of the class.
RunEnd(s, from, stop) ==
  LET hits == {x \in from..Len(s) : s[x] \in stop}
  IN  IF hits = {} THEN Len(s) ELSE Min(hits) - 1

NoMatch == [ok |-> FALSE, channel |-> <<>>, event |-> <<>>]

\* The match of the event part of both patterns at s[at]: a quote, one or
\* more characters that are no quote, a quote.
EventAt(s, at) ==
  IF at + 2 <= Len(s) /\ s[at] \in QuoteCls
  THEN LET e2 == RunEnd(s, at + 1, QuoteCls)
       IN  IF e2 >= at + 1 /\ e2 + 1 <= Len(s)
           THEN [ok |-> TRUE, event |-> SubSeq(s, at + 1, e2)]
           ELSE [ok |-> FALSE, event |-> <<>>]
  ELSE [ok |-> FALSE, event |-> <<>>]

\* The first pattern (migrate_to_ably.py line 93) tried at position p:
\* io.to( quote (channel: one or more characters outside the closing class)
\* one character of the closing class .emit( event.
AblyPattern1At(s, p) ==
  IF p + 2 <= Len(s) /\ s[p] = "io.to(" /\ s[p + 1] \in QuoteCls
  THEN LET e1 == RunEnd(s, p + 2, QuoteParenCls)
       IN  IF e1 >= p + 2 /\ e1 + 2 <= Len(s) /\ s[e1 + 2] = ".emit("
           THEN LET ev == EventAt(s, e1 + 3)
                IN  IF ev.ok
                    THEN [ok |-> TRUE, channel |-> SubSeq(s, p + 2, e1),
                          event |-> ev.event]
                    ELSE NoMatch
           ELSE NoMatch
  ELSE NoMatch

\* The template literal pattern (migrate_to_ably.py line 96) tried at
\* position p: io.to( backtick (channel: one or more characters that are no
\* backtick) backtick ) .emit( event.
AblyPattern2At(s, p) ==
  IF p + 2 <= Len(s) /\ s[p] = "io.to(" /\ s[p + 1] = "BACKTICK"
  THEN LET e1 == RunEnd(s, p + 2, {"BACKTICK"})
       IN  IF /\ e1 >= p + 2 /\ e1 + 3 <= Len(s)
              /\ s[e1 + 2] = ")" /\ s[e1 + 3] = ".emit("
           THEN LET ev == EventAt(s, e1 + 4)
                IN  IF ev.ok
                    THEN [ok |-> TRUE, channel |-> SubSeq(s, p + 2, e1),
                          event |-> ev.event]
                    ELSE NoMatch
           ELSE NoMatch
  ELSE NoMatch

\* re.search: the match at the leftmost position that has one.
AblyPattern1(s) ==
  LET ps == {p \in 1..Len(s) : AblyPattern1At(s, p).ok}
  IN  IF ps = {} THEN NoMatch ELSE AblyPattern1At(s, Min(ps))

AblyPattern2(s) ==
  LET ps == {p \in 1..Len(s) : AblyPattern2At(s, p).ok}
  IN  IF ps = {} THEN NoMatch ELSE AblyPattern2At(s, Min(ps))

\* match = re.search(first); if not match: match = re.search(second)
AblyMatch(stripped) ==
  IF AblyPattern1(stripped).ok THEN AblyPattern1(stripped)
  ELSE AblyPattern2(stripped)

\* if stripped.startswith('//') and 'io.to(' in stripped and '.emit(' in stripped
AblyIsCallLine(stripped) ==
  /\ StartsWith(stripped, <<"//">>)
  /\ Contains(stripped, <<"io.to(">>)
  /\ Contains(stripped, <<".emit(">>)

\* if '// TODO: Replace with Ably' in line
AblyMarker == <<"//", " ", "TODO", ":", " ", "Replace with Ably">>

\* Safety: don't look too far ahead (if j - i > 50: break)
LookAhead == 50

\* The while loop over the commented property lines: the k it ends at, the
\* brace count there and the properties collected.
RECURSIVE AblyScanProps(_, _, _, _)
AblyScanProps(lines, k, brace_count, properties) ==
  IF k <= Len(lines) /\ brace_count > 0
  THEN LET prop_stripped == Strip(lines[k])
       IN  IF ~StartsWith(prop_stripped, <<"//">>)
           THEN AblyScanProps(lines, k + 1, brace_count, properties)
           ELSE LET uncommented == Strip(Tail(prop_stripped))
                    b == brace_count + Count(uncommented, "{")
                                     - Count(uncommented, "}")
                    props == IF /\ uncommented # <<>> /\ b > 0
                                /\ uncommented # <<"}">>
                                /\ uncommented # <<"}", ")", ";">>
                             THEN Append(properties, uncommented)
                             ELSE properties
                IN  IF b = 0
                    THEN [k |-> k, brace_count |-> b, properties |-> props]
                    ELSE AblyScanProps(lines, k + 1, b, props)
  ELSE [k |-> k, brace_count |-> brace_count, properties |-> properties]

\* The replacement built from indent_str, channel, event and properties.
AblyReplacement(indent_str, channel, event, properties) ==
  << indent_str \o <<"//", " ", "Publish to Ably real-time channel">>,
     indent_str \o <<"try", " ", "{">>,
     indent_str \o <<" ", " ", "await", " ", "publishToChannel", "(", "'">>
                \o channel \o <<"'", ",", " ", "'">> \o event
                \o <<"'", ",", " ", "{">> >>
  \o [x \in 1..Len(properties) |->
        indent_str \o <<" ", " ", " ", " ">> \o properties[x]]
  \o << indent_str \o <<" ", " ", "}", ")", ";">>,
        indent_str \o <<"}", " ", "catch", " ", "(", "ablyError", ")", " ", "{">>,
        indent_str \o <<" ", " ", "console.error", "(", "'",
                        "Failed to publish to Ably", ":", "'", ",", " ",
                        "ablyError.message", ")", ";">>,
        indent_str \o <<"}">> >>

\* lines[i:k+1] = replacement  (a slice end past the list is the list's end)
Splice(lines, i, k, replacement) ==
  SubSeq(lines, 1, i - 1) \o replacement \o SubSeq(lines, k + 1, Len(lines))

\* The while loop that looks for the commented io.to().emit() line after
\* the marker at line i.  found: a block was replaced; n: len(replacement).
RECURSIVE AblyFindCall(_, _, _)
AblyFindCall(lines, i, j) ==
  IF j > Len(lines) THEN [found |-> FALSE, lines |-> lines, n |-> 0]
  ELSE LET stripped == Strip(lines[j])
           match == AblyMatch(stripped)
       IN  IF AblyIsCallLine(stripped) /\ match.ok
           THEN LET sc == AblyScanProps(lines, j + 1, 1, <<>>)
                    replacement ==
                      AblyReplacement(Spaces(Indent(lines[j])), match.channel,
                                      match.event, sc.properties)
                IN  [found |-> TRUE,
                     lines |-> Splice(lines, i, sc.k, replacement),
                     n |-> Len(replacement)]
           ELSE IF (j + 1) - i > LookAhead
                THEN [found |-> FALSE, lines |-> lines, n |-> 0]
                ELSE AblyFindCall(lines, i, j + 1)

\* i += len(replacement); break; i += 1
AblyNextIndex(i, n) == i + n + 1

\* The outer while loop of migrate_socket_to_ably.
RECURSIVE AblyLoop(_, _, _)
AblyLoop(lines, i, modified) ==
  IF i > Len(lines) THEN [lines |-> lines, modified |-> modified]
  ELSE IF Contains(lines[i], AblyMarker)
       THEN CHOOSE out \in
              { IF r.found
                THEN AblyLoop(r.lines, AblyNextIndex(i, r.n), TRUE)
                ELSE AblyLoop(lines, i + 1, modified) :
                  r \in {AblyFindCall(lines, i, i + 1)} } :
              TRUE
       ELSE AblyLoop(lines, i + 1, modified)

MigrateSocketToAbly(lines) == AblyLoop(lines, 1, FALSE)

\* if 'ably-adapter' in content or 'ably-publish' in content
HasAblyReference(lines) ==
  \E x \in 1..Len(lines) :
    Contains(lines[x], <<"ably-adapter">>) \/ Contains(lines[x], <<"ably-publish">>)

\* if 'require(' in line and not line.strip().startswith('//')
IsRequireLine(line) ==
  Contains(line, <<"require(">>) /\ ~StartsWith(Strip(line), <<"//">>)

\* if not // and not /* and not * and line.strip()
IsFirstCodeLine(line) ==
  /\ ~StartsWith(Strip(line), <<"//">>)
  /\ ~StartsWith(Strip(line), <<"/*">>)
  /\ ~StartsWith(Strip(line), <<"*">>)
  /\ Strip(line) # <<>>

\* last_require_index as the code computes it (0-based, -1 for none).
LastRequireIndex(lines) ==
  LET req  == {x \in 1..Len(lines) : IsRequireLine(lines[x])}
      code == {x \in 1..Len(lines) : IsFirstCodeLine(lines[x])}
  IN  IF req # {} THEN (CHOOSE x \in req : \A y \in req : y <= x) - 1
      ELSE IF code # {} THEN (Min(code) - 1) - 1
      ELSE -1

\* import_line, by filepath.startswith('utils/')
ImportLine(utils) ==
  <<"const", " ", "{", " ", "publishToChannel", " ", "}", " ", "=", " ",
    "require(", "'">>
  \o (IF utils THEN <<"./">> ELSE <<"../utils/">>)
  \o <<"ably-adapter", "'", ")", ";">>

\* lines.insert(index, x)
ListInsert(lines, index, x) ==
  SubSeq(lines, 1, index) \o <<x>> \o SubSeq(lines, index + 1, Len(lines))

AddAblyImport(lines, utils) ==
  IF HasAblyReference(lines) THEN [lines |-> lines, added |-> FALSE]
  ELSE [lines |-> ListInsert(lines, LastRequireIndex(lines) + 1, ImportLine(utils)),
        added |-> TRUE]

(***************************************************************************)
(* fix_socket_comments.py                                                  *)
(***************************************************************************)
\* if '//     io.to(' in line or '//   io.to(' in line
IsCommentsMarker(line) ==
  \/ Contains(line, <<"//", " ", " ", " ", " ", " ", "io.to(">>)
  \/ Contains(line, <<"//", " ", " ", " ", "io.to(">>)

\* Stop if we hit an empty line or new statement
CommentsStops(stripped) ==
  \/ stripped = <<>>
  \/ StartsWith(stripped, <<"//">>)
  \/ StartsWith(stripped, <<"res.">>)
  \/ StartsWith(stripped, <<"await">>)
  \/ StartsWith(stripped, <<"const">>)
  \/ StartsWith(stripped, <<"let">>)
  \/ StartsWith(stripped, <<"var">>)

\* if ':' in stripped or stripped == '}' or stripped.endswith(',')
CommentsIsProperty(stripped) ==
  \/ Contains(stripped, <<":">>)
  \/ stripped = <<"}">>
  \/ EndsWith(stripped, <<",">>)

\* The inner while loop of fix_file, which rewrites lines as it meets them.
RECURSIVE CommentsScan(_, _, _)
CommentsScan(lines, j, modified) ==
  IF j > Len(lines) THEN [lines |-> lines, modified |-> modified]
  ELSE LET next_line == lines[j]
           stripped  == Strip(next_line)
       IN  IF stripped = <<"}", ")", ";">>
           THEN [lines |-> [lines EXCEPT ![j] = CommentOut(next_line)],
                 modified |-> TRUE]
           ELSE IF CommentsStops(stripped)
                THEN [lines |-> lines, modified |-> modified]
                ELSE IF CommentsIsProperty(stripped)
                     THEN CommentsScan([lines EXCEPT ![j] = CommentOut(next_line)],
                                       j + 1, TRUE)
                     ELSE CommentsScan(lines, j + 1, modified)

\* The outer while loop of fix_file.
RECURSIVE CommentsLoop(_, _, _)
CommentsLoop(lines, i, modified) ==
  IF i > Len(lines) THEN [lines |-> lines, modified |-> modified]
  ELSE IF IsCommentsMarker(lines[i])
       THEN CHOOSE out \in
              { CommentsLoop(r.lines, i + 1, r.modified) :
                  r \in {CommentsScan(lines, i + 1, modified)} } :
              TRUE
       ELSE CommentsLoop(lines, i + 1, modified)

CommentsFixFile(lines) == CommentsLoop(lines, 1, FALSE)

(***************************************************************************)
(* migrate_todos.py                                                        *)
(***************************************************************************)
\* if 'TODO: Replace with Ably' in line
TodosMarker == <<"TODO", ":", " ", "Replace with Ably">>

EndCall == <<"}", ")", ";">>

\* The pattern of extract_channel_and_event (migrate_todos.py line 23) with
\* io.to( at position p and the lazy channel group ending at e.
TodosPatternAt(s, p, e) ==
  /\ s[p] = "io.to("
  /\ e + 4 <= Len(s)
  /\ s[e + 1] = ")" /\ s[e + 2] = ".emit(" /\ s[e + 3] = "'"
  /\ LET e2 == RunEnd(s, e + 4, {"'"})
     IN  e2 >= e + 4 /\ e2 + 1 <= Len(s)

\* re.search on one line: leftmost start, then the shortest channel group.
TodosSearch(s) ==
  LET ps == {p \in 1..Len(s) : \E e \in p..Len(s) : TodosPatternAt(s, p, e)}
  IN  IF ps = {} THEN [ok |-> FALSE, channel |-> <<>>, event |-> <<>>]
      ELSE LET p == Min(ps)
               e == Min({x \in p..Len(s) : TodosPatternAt(s, p, x)})
           IN  [ok |-> TRUE, channel |-> SubSeq(s, p + 1, e),
                event |-> SubSeq(s, e + 4, RunEnd(s, e + 4, {"'"}))]

\* for line in lines: match = re.search(...); if match: return groups
\* return None, None   (ok = FALSE)
RECURSIVE ExtractChannelAndEvent(_)
ExtractChannelAndEvent(lines) ==
  IF lines = <<>> THEN [ok |-> FALSE, channel |-> <<>>, event |-> <<>>]
  ELSE IF TodosSearch(Head(lines)).ok THEN TodosSearch(Head(lines))
       ELSE ExtractChannelAndEvent(Tail(lines))

\* The loop of extract_payload.
RECURSIVE ExtractPayloadLoop(_, _, _)
ExtractPayloadLoop(lines, in_payload, payload_lines) ==
  IF lines = <<>> THEN payload_lines
  ELSE LET line == Head(lines)
       IN  IF Contains(line, <<"{">>) /\ ~in_payload
           THEN ExtractPayloadLoop(Tail(lines), TRUE, payload_lines)
           ELSE IF Contains(line, EndCall) THEN payload_lines
           ELSE IF in_payload
                THEN LET s0 == Strip(line)
                         clean_line == IF StartsWith(s0, <<"//">>)
                                       THEN Strip(Tail(s0)) ELSE s0
                     IN  ExtractPayloadLoop(Tail(lines), TRUE,
                           IF clean_line # <<>> /\ ~StartsWith(clean_line, <<"//">>)
                           THEN Append(payload_lines, clean_line)
                           ELSE payload_lines)
                ELSE ExtractPayloadLoop(Tail(lines), FALSE, payload_lines)

ExtractPayload(lines) == ExtractPayloadLoop(lines, FALSE, <<>>)

\* The while loop that collects the block after the TODO line: the index of
\* the first line that is not part of the block.
RECURSIVE TodosBlockEnd(_, _)
TodosBlockEnd(lines, j) ==
  IF j <= Len(lines)
     /\ (StartsWith(Strip(lines[j]), <<"//">>) \/ Strip(lines[j]) = <<>>)
  THEN IF Contains(lines[j], EndCall) THEN j + 1
       ELSE TodosBlockEnd(lines, j + 1)
  ELSE j

\* The replacement text, as the lines it is written as.
TodosReplacement(indent_str, channel, event, payload_lines) ==
  << indent_str \o <<"try", " ", "{">>,
     indent_str \o <<" ", " ", "await", " ", "publishToChannel", "(">>
                \o channel \o <<",", " ", "'">> \o event
                \o <<"'", ",", " ", "{">> >>
  \o [x \in 1..Len(payload_lines) |->
        indent_str \o <<" ", " ", " ", " ">> \o payload_lines[x]]
  \o << indent_str \o <<" ", " ", "}", ")", ";">>,
        indent_str \o <<"}", " ", "catch", " ", "(", "ablyError", ")", " ", "{">>,
        indent_str \o <<" ", " ", "logger.error", "(", "'", "Failed to publish", " ">>
                   \o event
                   \o <<" ", "to Ably", ":", "'", ",", " ", "ablyError.message",
                        ")", ";">>,
        indent_str \o <<"}">> >>

\* if channel and event
TodosResolved(m) == m.ok /\ m.channel # <<>> /\ m.event # <<>>

\* The while loop of migrate_file.
RECURSIVE TodosLoop(_, _, _, _)
TodosLoop(lines, i, new_lines, replacements) ==
  IF i > Len(lines) THEN [lines |-> new_lines, replacements |-> replacements]
  ELSE IF Contains(lines[i], TodosMarker)
       THEN LET j == TodosBlockEnd(lines, i + 1)
                block_lines == SubSeq(lines, i, j - 1)
                m == ExtractChannelAndEvent(block_lines)
            IN  IF TodosResolved(m)
                THEN TodosLoop(lines, j,
                       new_lines \o TodosReplacement(Spaces(Indent(lines[i])),
                                       m.channel, m.event,
                                       ExtractPayload(block_lines)),
                       replacements + 1)
                ELSE TodosLoop(lines, i + 1, Append(new_lines, lines[i]),
                               replacements)
       ELSE TodosLoop(lines, i + 1, Append(new_lines, lines[i]), replacements)

MigrateFile(lines) == TodosLoop(lines, 1, <<>>, 0)

(***************************************************************************)
(* The tools as state machines over one file.  file is the content of the  *)
(* file, before its content when the last run started, lastOp and prevOp   *)
(* the last two runs, ret the value the last run returned, wrote whether   *)
(* it wrote the file, inUtils whether filepath starts with 'utils/'.       *)
(***************************************************************************)
AblySegs ==
  { <<LBlank>>, <<LCode>>, <<LTodo>>, <<LCallQ>>, <<LCallBT>>, <<LPropC>>,
    <<LEndC>>, <<LEnd2C>>, <<LNote>>, <<LRequire>>, <<LRequireC>>, <<LAblyUse>>,
    <<LTodo, LCallBT, LPropC>>,
    <<LTodo, LCallBT, LPropC, LEndC>>,
    <<LTodo, LCallQ, LPropC, LEndC>>,
    <<LTodo, LCallBT, LOpenC, LPropC, LCloseInC, LEndC>>,
    <<LDocOpen, LDocRequire, LDocClose>> }

InitAbly ==
  /\ file \in DocsOf(AblySegs, MaxSegs)
  /\ before = file
  /\ lastOp = "none" /\ prevOp = "none"
  /\ ret = FALSE /\ wrote = FALSE /\ inUtils \in BOOLEAN /\ runs = 0

\* One call of add_ably_import(filepath).
RunAddAblyImport ==
  /\ runs < MaxRuns
  /\ LET r == AddAblyImport(file, inUtils)
     IN  file' = r.lines /\ wrote' = r.added /\ ret' = r.added
  /\ Record("add_ably_import")

\* One call of migrate_socket_to_ably(filepath).
RunMigrateSocketToAbly ==
  /\ runs < MaxRuns
  /\ LET r == MigrateSocketToAbly(file)
     IN  /\ file' = (IF r.modified THEN r.lines ELSE file)
         /\ wrote' = r.modified /\ ret' = r.modified
  /\ Record("migrate_socket_to_ably")

\* One iteration of the driver loop: add_ably_import, then
\* migrate_socket_to_ably; ret is whether the file is listed as migrated.
RunAblyDriver ==
  /\ runs < MaxRuns
  /\ \E a \in {AddAblyImport(file, inUtils)} :
       \E r \in {MigrateSocketToAbly(a.lines)} :
         /\ file' = (IF r.modified THEN r.lines ELSE a.lines)
         /\ wrote' = (a.added \/ r.modified) /\ ret' = r.modified
  /\ Record("driver")

NextAbly == RunAddAblyImport \/ RunMigrateSocketToAbly \/ RunAblyDriver

SpecAbly == InitAbly /\ [][NextAbly]_vars

CommentsSegs ==
  { <<LBlank>>, <<LCode>>, <<LCall3>>, <<LCall5>>, <<LCallC>>, <<LPropU>>,
    <<LPropC>>, <<LCloseU>>, <<LEndU>>, <<LAwait>>, <<LRes>>, <<LConst>>,
    <<LLet>>, <<LVar>>,
    <<LCall3, LPropU, LEndU>> }

InitComments ==
  /\ file \in DocsOf(CommentsSegs, MaxSegs)
  /\ before = file
  /\ lastOp = "none" /\ prevOp = "none"
  /\ ret = FALSE /\ wrote = FALSE /\ inUtils = FALSE /\ runs = 0

\* One run of fix_socket_comments.fix_file over the file.
RunCommentsFixFile ==
  /\ runs < MaxRuns
  /\ LET r == CommentsFixFile(file)
     IN  /\ file' = (IF r.modified THEN r.lines ELSE file)
         /\ wrote' = r.modified /\ ret' = r.modified
  /\ Record("comments_fix_file")

NextComments == RunCommentsFixFile

SpecComments == InitComments /\ [][NextComments]_vars

TodosSegs ==
  { <<LBlank>>, <<LCode>>, <<LTodo>>, <<LCallQ>>, <<LCallBT>>, <<LCallDQ>>,
    <<LPropC>>, <<LEndC>>, <<LEndNoSemiC>>, <<LInnerEndC>>, <<LNote>>,
    <<LTodo, LCallQ, LOpenC, LPropC, LCloseInC, LEndC>>,
    <<LTodo, LCallQ, LPropC>>,
    <<LTodo, LCallQ, LPropC, LEndC>>,
    <<LTodo, LCallDQ, LPropC, LEndC>>,
    <<LTodo, LCallQ, LOpen4C, LClose4C, LEndC>> }

InitTodos ==
  /\ file \in DocsOf(TodosSegs, MaxSegs)
  /\ before = file
  /\ lastOp = "none" /\ prevOp = "none"
  /\ ret = 0 /\ wrote = FALSE /\ inUtils = FALSE /\ runs = 0

\* One run of migrate_todos.migrate_file over the file.
RunMigrateFile ==
  /\ runs < MaxRuns
  /\ LET r == MigrateFile(file)
     IN  /\ file' = (IF r.replacements > 0 THEN r.lines ELSE file)
         /\ wrote' = (r.replacements > 0) /\ ret' = r.replacements
  /\ Record("migrate_file")

NextTodos == RunMigrateFile

SpecTodos == InitTodos /\ [][NextTodos]_vars

(***************************************************************************)
(* The claims.  The notions of the claims (delimiter depth, the line a     *)
(* block closes at, a comment line) are defined here from the claims'      *)
(* words, not from the code.                                               *)
(***************************************************************************)
IsSuffix(t, s) == Len(t) <= Len(s) /\ SubSeq(s, Len(s) - Len(t) + 1, Len(s)) = t

IsCommented(line) == StartsWith(Strip(line), <<"//">>)

\* The delimiter depth after line x of a block whose call line is line j:
\* 1 after the call line, plus the '{' and minus the '}' of each later line.
RECURSIVE DepthAt(_, _, _)
DepthAt(lines, j, x) ==
  IF x <= j THEN 1
  ELSE DepthAt(lines, j, x - 1) + Count(lines[x], "{") - Count(lines[x], "}")

\* Line x is the first line after the call line j at which the depth is 0.
ClosesAt(lines, j, x) ==
  /\ x > j /\ x <= Len(lines)
  /\ DepthAt(lines, j, x) = 0
  /\ \A y \in (j + 1)..(x - 1) : DepthAt(lines, j, y) > 0

\* The depth never returns to 0 after the call line j: a truncated block.
NeverCloses(lines, j) ==
  /\ j < Len(lines)
  /\ \A x \in (j + 1)..Len(lines) : DepthAt(lines, j, x) > 0

\* Line x is the first line after the call line j at which the depth is
\* negative, and the depth was positive until then.
GoesNegativeAt(lines, j, x) ==
  /\ x > j /\ x <= Len(lines)
  /\ DepthAt(lines, j, x) < 0
  /\ \A y \in (j + 1)..(x - 1) : DepthAt(lines, j, y) > 0

\* The greatest depth of the block of call line j that closes at line x.
MaxDepth(lines, j, x) ==
  CHOOSE d \in 1..(Len(lines) * 8 + 1) :
    /\ \E y \in j..x : DepthAt(lines, j, y) = d
    /\ \A y \in j..x : DepthAt(lines, j, y) <= d

Markers(lines) == {x \in 1..Len(lines) : Contains(lines[x], AblyMarker)}

OrphanCalls(lines) == {x \in 1..Len(lines) : IsOrphanCall(lines[x])}

CommentsMarkers(lines) == {x \in 1..Len(lines) : IsCommentsMarker(lines[x])}

\* C1: running migrate_socket_to_ably on a document it has produced changes
\* nothing and writes nothing: the second run returns False and leaves the
\* file as the first run left it.
C1_MigrationIdempotent ==
  (lastOp = "migrate_socket_to_ably" /\ prevOp = "migrate_socket_to_ably")
    => (~wrote /\ ~ret /\ file = before)

\* C2: when the lines after a recognized call line never bring the depth to
\* zero, migrate_socket_to_ably leaves the lines after the call line, to the
\* end of the file, as they were (stated for a file with one marker, whose
\* call line is the line after it).
C2_NonCorruptionOnMalformedInput ==
  lastOp = "migrate_socket_to_ably" =>
    \A i \in 1..(Len(before) - 1) :
      ( /\ Markers(before) = {i}
        /\ AblyIsCallLine(Strip(before[i + 1]))
        /\ AblyMatch(Strip(before[i + 1])).ok
        /\ NeverCloses(before, i + 1) )
      => IsSuffix(SubSeq(before, i + 2, Len(before)), file)

\* C2, for fix_all_socket_orphans.fix_file: when the lines after the only
\* call line never bring the depth to zero, no line is modified.
C2_NonCorruptionOnMalformedInput_Orphans ==
  lastOp = "orphans_fix_file" =>
    \A i \in 1..Len(before) :
      (OrphanCalls(before) = {i} /\ NeverCloses(before, i)) => file = before

\* C3: when the commented call line after the first marker yields no channel
\* and event, every line of that block, from the marker to the line the
\* block closes at, is in the output as it was.
C3_NoPartialRewrite ==
  lastOp = "migrate_socket_to_ably" =>
    \A i \in 1..(Len(before) - 1), x \in 1..Len(before) :
      ( /\ i \in Markers(before)
        /\ \A y \in 1..(i - 1) : y \notin Markers(before)
        /\ AblyIsCallLine(Strip(before[i + 1]))
        /\ ~AblyMatch(Strip(before[i + 1])).ok
        /\ ClosesAt(before, i + 1, x) )
      => (Len(file) >= x /\ SubSeq(file, i, x) = SubSeq(before, i, x))

\* C4: when the driver migrates no block of a file (migrate_socket_to_ably
\* returns False), the file is as it was before the driver ran, and was not
\* written.
C4_NoSpliceNoWrite ==
  (lastOp = "driver" /\ ~ret) => (file = before /\ ~wrote)

\* A block of comment lines after the call line j that closes at line x with
\* balanced braces nested 1, 2 or 5 deep.
BalancedCommentBlock(lines, j, x) ==
  /\ ClosesAt(lines, j, x)
  /\ \A y \in j..x : IsCommented(lines[y])
  /\ MaxDepth(lines, j, x) \in {1, 2, 5}

\* C5: for a block of comment lines with balanced braces, the span of the
\* extractor of migrate_todos.migrate_file ends at the first line at which
\* the depth is zero.
C5_SpanCorrectness ==
  lastOp = "migrate_file" =>
    \A i \in 1..(Len(before) - 1), x \in 1..Len(before) :
      ( /\ Contains(before[i], TodosMarker)
        /\ Contains(before[i + 1], <<"io.to(">>)
        /\ BalancedCommentBlock(before, i + 1, x) )
      => TodosBlockEnd(before, i + 1) - 1 = x

\* C5, for migrate_socket_to_ably: the scan of the property lines ends at
\* the first line at which the depth is zero.
C5_SpanCorrectness_Ably ==
  lastOp = "migrate_socket_to_ably" =>
    \A j \in 1..Len(before), x \in 1..Len(before) :
      BalancedCommentBlock(before, j, x)
        => AblyScanProps(before, j + 1, 1, <<>>).k = x

\* C5, for fix_all_socket_orphans.fix_file: the scan after a call line ends
\* at the first line at which the depth is zero.
C5_SpanCorrectness_Orphans ==
  lastOp = "orphans_fix_file" =>
    \A j \in 1..Len(before), x \in 1..Len(before) :
      (IsOrphanCall(before[j]) /\ BalancedCommentBlock(before, j, x))
        => OrphanScan(before, j + 1, 1, <<>>).j = x

\* A comment line: a line that starts a line comment or a block comment, or
\* continues a block comment.
IsCommentLine(line) ==
  \/ StartsWith(Strip(line), <<"//">>)
  \/ StartsWith(Strip(line), <<"/*">>)
  \/ StartsWith(Strip(line), <<"*">>)

\* The number of lines before the place C6 names: after the last require(
\* line that is no comment, or else before the first line that is neither
\* blank nor a comment (-1: the claim names no place).
ClaimedImportPlace(lines) ==
  LET req  == {x \in 1..Len(lines) :
                 Contains(lines[x], <<"require(">>) /\ ~IsCommentLine(lines[x])}
      code == {x \in 1..Len(lines) :
                 Strip(lines[x]) # <<>> /\ ~IsCommentLine(lines[x])}
  IN  IF req # {} THEN CHOOSE x \in req : \A y \in req : y <= x
      ELSE IF code # {} THEN Min(code) - 1
      ELSE -1

IsImportLine(line) ==
  Contains(line, <<"publishToChannel">>) /\ Contains(line, <<"require(">>)

\* C6: add_ably_import on a file without a reference to the publish
\* primitive inserts one import line at the place named, and a further run
\* leaves the file, with its one import line, as it is.
C6_ImportInsertion ==
  /\ ( /\ lastOp = "add_ably_import"
       /\ ~HasAblyReference(before)
       /\ ClaimedImportPlace(before) >= 0 )
     => file = ListInsert(before, ClaimedImportPlace(before), ImportLine(inUtils))
  /\ (lastOp = "add_ably_import" /\ prevOp = "add_ably_import")
     => ( /\ file = before
          /\ Cardinality({x \in 1..Len(file) : IsImportLine(file[x])}) = 1 )

\* A commented call line of the form  // io.to(<quoted literal>).emit('<event>', {
IsQuotedLiteralCall(line) ==
  /\ Len(line) = 14
  /\ SubSeq(line, 1, 3) = <<"//", " ", "io.to(">>
  /\ line[4] \in {"'", "DQUOTE"} /\ line[6] = line[4]
  /\ line[5] \notin QuoteParenCls
  /\ SubSeq(line, 7, 9) = <<")", ".emit(", "'">>
  /\ line[10] \notin QuoteParenCls
  /\ SubSeq(line, 11, 14) = <<"'", ",", " ", "{">>

\* A comment-prefixed payload line: no brace, and not the terminator.
IsPayloadLine(line) ==
  /\ IsCommented(line)
  /\ Strip(Tail(Strip(line))) # <<>>
  /\ Count(line, "{") = 0 /\ Count(line, "}") = 0

\* C7: for a commented call line with a quoted literal channel, followed by
\* payload lines and the terminator, the parser of migrate_socket_to_ably
\* yields the channel as written between the parentheses (quotes included),
\* the event as written between its quotes, and one fragment for each
\* payload line: the line without its comment prefix and the whitespace
\* around it.
C7_FieldFidelity ==
  lastOp = "migrate_socket_to_ably" =>
    \A j \in 1..Len(before), t \in 1..Len(before) :
      ( /\ IsQuotedLiteralCall(before[j])
        /\ t > j + 1 /\ before[t] = LEndC
        /\ \A y \in (j + 1)..(t - 1) : IsPayloadLine(before[y]) )
      => LET m == AblyMatch(Strip(before[j]))
         IN  /\ m.ok
             /\ m.channel = SubSeq(before[j], 4, 6)
             /\ m.event = SubSeq(before[j], 10, 10)
             /\ AblyScanProps(before, j + 1, 1, <<>>).properties
                  = [y \in 1..(t - j - 1) |-> Strip(Tail(Strip(before[j + y])))]

\* C7, for migrate_todos: extract_channel_and_event and extract_payload on
\* the block of a marker, such a call line, payload lines and the terminator.
C7_FieldFidelity_Todos ==
  lastOp = "migrate_file" =>
    \A j \in 2..Len(before), t \in 1..Len(before) :
      ( /\ before[j - 1] = LTodo
        /\ IsQuotedLiteralCall(before[j])
        /\ t > j + 1 /\ before[t] = LEndC
        /\ \A y \in (j + 1)..(t - 1) : IsPayloadLine(before[y]) )
      => LET m == ExtractChannelAndEvent(SubSeq(before, j - 1, t))
         IN  /\ m.ok
             /\ m.channel = SubSeq(before[j], 4, 6)
             /\ m.event = SubSeq(before[j], 10, 10)
             /\ ExtractPayload(SubSeq(before, j - 1, t))
                  = [y \in 1..(t - j - 1) |-> Strip(Tail(Strip(before[j + y])))]

\* C8: when the depth drops below zero while fix_all_socket_orphans.fix_file
\* scans the lines after the only call line of a file, no line of the file
\* is modified.
C8_NegativeDepthMeansSkip ==
  lastOp = "orphans_fix_file" =>
    \A i \in 1..Len(before), x \in 1..Len(before) :
      (OrphanCalls(before) = {i} /\ GoesNegativeAt(before, i, x))
        => file = before

\* C8, for migrate_socket_to_ably: when the depth drops below zero at line x
\* of the block of the only marker, the lines after line x are not removed
\* or changed.
C8_NegativeDepthMeansSkip_Ably ==
  lastOp = "migrate_socket_to_ably" =>
    \A i \in 1..(Len(before) - 1), x \in 1..Len(before) :
      ( /\ Markers(before) = {i}
        /\ AblyIsCallLine(Strip(before[i + 1]))
        /\ AblyMatch(Strip(before[i + 1])).ok
        /\ GoesNegativeAt(before, i + 1, x) )
      => IsSuffix(SubSeq(before, x + 1, Len(before)), file)

\* The line that ends the scan of fix_socket_comments.fix_file early: an
\* empty line or a line that begins a new statement.
IsEarlyTerminator(line) ==
  \/ Strip(line) = <<>>
  \/ \E w \in {"res.", "await", "const", "let", "var"} :
       StartsWith(Strip(line), <<w>>)

\* C9: when the scan after the only marker line of a file meets an empty
\* line or the beginning of a new statement at line t before it meets the
\* closing line, no line between the marker and line t has been modified.
C9_EarlyTerminatorNoModification ==
  lastOp = "comments_fix_file" =>
    \A i \in 1..Len(before), t \in 1..Len(before) :
      ( /\ CommentsMarkers(before) = {i}
        /\ t > i /\ IsEarlyTerminator(before[t])
        /\ \A y \in (i + 1)..(t - 1) :
             /\ ~IsEarlyTerminator(before[y])
             /\ ~IsCommented(before[y])
             /\ Strip(before[y]) # EndCall )
      => SubSeq(file, i, t) = SubSeq(before, i, t)

\* C10: a run of fix_all_socket_orphans.fix_file never changes a line that
\* is already comment-prefixed, and never changes the number of lines; the
\* braces of comment-prefixed lines count for the depth, so that no line is
\* changed after the line the block of the only call line closes at; a run
\* on the output of a run modifies no line, writes nothing and returns False.
C10_IdempotentCommenting ==
  /\ lastOp = "orphans_fix_file" =>
       /\ Len(file) = Len(before)
       /\ \A x \in 1..Len(before) : IsCommented(before[x]) => file[x] = before[x]
       /\ \A i \in 1..Len(before), x \in 1..Len(before) :
            (OrphanCalls(before) = {i} /\ ClosesAt(before, i, x))
              => \A y \in (x + 1)..Len(before) : file[y] = before[y]
  /\ (lastOp = "orphans_fix_file" /\ prevOp = "orphans_fix_file")
       => (~wrote /\ ~ret /\ file = before)

\* C10's case: a second run has left alone a file in which the first run
\* commented out a call line that opens a nested block.
C10_Witness ==
  /\ lastOp = "orphans_fix_file" /\ prevOp = "orphans_fix_file"
  /\ ~wrote
  /\ \E x \in 2..Len(file) :
       /\ file[x] = CommentOut(LCallU)
       /\ IsOrphanCall(file[x])
       /\ \E y \in 1..(x - 1) : IsOrphanCall(file[y])
       /\ x < Len(file) /\ IsCommented(file[x + 1])

====
